---- MODULE Spec2Model ----
(***************************************************************************)
(* A model of the free-ranges crate (src/src/lib.rs): FreeRanges, a set of *)
(* closed index intervals kept in a BTreeSet<Range> whose ordering makes   *)
(* two ranges "equal" when they share an index.                            *)
(*                                                                         *)
(* The BTreeSet is modelled as the sequence of its keys in tree order.     *)
(* Every lookup walks that sequence the way the tree's node search does:   *)
(* compare the key with each stored key in turn, go on while the result is *)
(* Greater, stop with "found" on Equal and with "not found, insert here"   *)
(* on Less.  Stored sets stay far below one leaf's capacity.               *)
(*                                                                         *)
(* usize is modelled as the integers 0..MAX with arithmetic modulo MAX+1.  *)
(* An overflowing `+= 1` wraps in a build without overflow checks and      *)
(* panics in a build with them; the build is chosen in Init.               *)
(***************************************************************************)
EXTENDS Integers, Sequences, FiniteSets

VARIABLES
    free_list,        \* FreeRanges.free_list: the stored ranges, in tree order
    overflow_checks,  \* TRUE: arithmetic overflow panics; FALSE: it wraps
    panicked,         \* the last operation panicked; nothing runs afterwards
    op,               \* name of the last operation (or constructor)
    arg,              \* its argument, as a Range (id(index) for an index)
    prev,             \* free_list just before the last operation
    ret,              \* what the last operation returned
    overflowed,       \* the last operation incremented MAX
    underflowed,      \* the last operation decremented 0
    round_trip,       \* the last two operations were set_free(i) -> true, set_used(i)
    before,           \* when round_trip: free_list before that set_free
    probe,            \* ranges handed to Range::cmp, and the orderings it gave
    abstract,         \* a plain set of indices driven by the same calls
    drain             \* a run of set_first_used() calls and what they returned

vars == <<free_list, overflow_checks, panicked, op, arg, prev, ret,
          overflowed, underflowed, round_trip, before, probe, abstract, drain>>

\* The largest index, standing for usize::MAX.
MAX == 5

Modulus == MAX + 1

Index == 0..MAX

-----------------------------------------------------------------------------
(* Range *)

Range(lo, hi) == [min |-> lo, max |-> hi]

EMPTY_RANGE == Range(1, 0)

id(i) == Range(i, i)

empty(r) == r.min > r.max

\* usize `+ 1` and `- 1`, wrapping.
Inc(x) == (x + 1) % Modulus

Dec(x) == (x + Modulus - 1) % Modulus

\* `x + 1` leaves usize; `x - 1` leaves usize
IncOverflows(x) == x = MAX

DecUnderflows(x) == x = 0

push_front(r) == [r EXCEPT !.min = Dec(r.min)]

\* push_back as it would be had it returned the range as it came.
push_back_noop(r) == r

push_back(r) == [r EXCEPT !.max = Inc(r.max)]

pop_front(r) == [r EXCEPT !.min = Inc(r.min)]

pop_back(r) == [r EXCEPT !.max = Dec(r.max)]

Min2(a, b) == IF a <= b THEN a ELSE b

Max2(a, b) == IF a >= b THEN a ELSE b

merge(r, other) == Range(Min2(r.min, other.min), Max2(r.max, other.max))

contains(r, value) == value >= r.min /\ value <= r.max

split(r, middle) ==
    IF middle = 0
        THEN <<EMPTY_RANGE, pop_front(r)>>
        ELSE <<Range(r.min, Dec(middle)), Range(Inc(middle), r.max)>>

\* cmp as it would be had the comparison only asked whether r holds an
\* endpoint of other, not whether other holds an endpoint of r.
cmp_one_sided(r, other) ==
    IF contains(r, other.min) \/ contains(r, other.max)
        THEN "Equal"
        ELSE IF r.min < other.min THEN "Less"
             ELSE IF r.min > other.min THEN "Greater"
             ELSE "Equal"

\* cmp as a derived ordering would give it: by min, then by max.
cmp_by_min(r, other) ==
    IF r.min < other.min THEN "Less"
    ELSE IF r.min > other.min THEN "Greater"
    ELSE IF r.max < other.max THEN "Less"
    ELSE IF r.max > other.max THEN "Greater"
    ELSE "Equal"

\* impl Ord for Range
cmp(r, other) ==
    IF \/ contains(r, other.min)
       \/ contains(r, other.max)
       \/ contains(other, r.min)
       \/ contains(other, r.max)
        THEN "Equal"
        ELSE IF r.min < other.min THEN "Less"
             ELSE IF r.min > other.min THEN "Greater"
             ELSE "Equal"

\* impl PartialEq for Range
eq(r, other) == cmp(r, other) = "Equal"

-----------------------------------------------------------------------------
(* BTreeSet<Range>, as the sequence of its keys *)

RECURSIVE SearchFrom(_, _, _)
SearchFrom(list, key, i) ==
    IF i > Len(list)
        THEN [found |-> FALSE, idx |-> i]
        ELSE IF cmp(key, list[i]) = "Greater"
            THEN SearchFrom(list, key, i + 1)
            ELSE [found |-> cmp(key, list[i]) = "Equal", idx |-> i]

Search(list, key) == SearchFrom(list, key, 1)

\* BTreeSet::contains / BTreeSet::get(..).is_some()
Has(list, key) == Search(list, key).found

\* BTreeSet::get, when Has
Get(list, key) == list[Search(list, key).idx]

\* BTreeSet::insert: an Equal key already stored is kept, the new one dropped
Insert(list, key) ==
    LET s == Search(list, key)
    IN  IF s.found
            THEN list
            ELSE SubSeq(list, 1, s.idx - 1) \o <<key>> \o SubSeq(list, s.idx, Len(list))

\* BTreeSet::remove
Remove(list, key) ==
    LET s == Search(list, key)
    IN  IF s.found
            THEN SubSeq(list, 1, s.idx - 1) \o SubSeq(list, s.idx + 1, Len(list))
            ELSE list

\* The insert without the `!r.empty()` test in front of it.
InsertAlways(list, r) == Insert(list, r)

InsertIfNotEmpty(list, r) == IF empty(r) THEN list ELSE Insert(list, r)

-----------------------------------------------------------------------------
(* Return values *)

RetBool(b) == [kind |-> "bool", b |-> b, v |-> 0]

RetSome(x) == [kind |-> "some", b |-> FALSE, v |-> x]

RetNone == [kind |-> "none", b |-> FALSE, v |-> 0]

RetUnit == [kind |-> "unit", b |-> FALSE, v |-> 0]

NoReturn == [kind |-> "panic", b |-> FALSE, v |-> 0]

\* The outcome of one call: the final list and return value when no
\* arithmetic traps, whether an increment of MAX (ovf) or a decrement of 0
\* (unf) is computed, and the list at the moment of the first such step.
Outcome(list, r, ovf, unf, mid) ==
    [list |-> list, ret |-> r, ovf |-> ovf, unf |-> unf, mid |-> mid]

Quiet(list, r) == Outcome(list, r, FALSE, FALSE, list)

-----------------------------------------------------------------------------
(* FreeRanges *)

\* do_set_free as it would be had the two-neighbour case left back_range stored.
do_set_free_keep_back(list, range) ==
    LET range_front == IF range.min > 0 THEN push_front(range) ELSE range
        range_back == push_back(range)
        has_front == Has(list, range_front)
        has_back == Has(list, range_back)
        front_range == Get(list, range_front)
        back_range == Get(list, range_back)
    IN  IF has_front /\ has_back
            THEN Insert(Remove(list, front_range),
                        merge(merge(front_range, range), back_range))
        ELSE IF has_front
            THEN Insert(Remove(list, front_range), merge(front_range, range))
        ELSE IF has_back
            THEN Insert(Remove(list, back_range), merge(back_range, range))
        ELSE Insert(list, range)

do_set_free(list, range) ==
    LET range_front == IF range.min > 0 THEN push_front(range) ELSE range
        range_back == push_back(range)
        has_front == Has(list, range_front)
        has_back == Has(list, range_back)
        front_range == Get(list, range_front)
        back_range == Get(list, range_back)
    IN  IF has_front /\ has_back
            THEN Insert(Remove(Remove(list, front_range), back_range),
                        merge(merge(front_range, range), back_range))
        ELSE IF has_front
            THEN Insert(Remove(list, front_range), merge(front_range, range))
        ELSE IF has_back
            THEN Insert(Remove(list, back_range), merge(back_range, range))
        ELSE Insert(list, range)

\* do_set_free computes range.max + 1 before it touches the set
DoSetFreeOutcome(list, range) ==
    Outcome(do_set_free(list, range), RetBool(TRUE), IncOverflows(range.max),
            range.min > 0 /\ DecUnderflows(range.min), list)

\* set_free as it would be without the early return for an index already free.
set_free_unchecked(list, index) == DoSetFreeOutcome(list, id(index))

set_free(list, index) ==
    IF Has(list, id(index))
        THEN Quiet(list, RetBool(FALSE))
        ELSE DoSetFreeOutcome(list, id(index))

set_range_free(list, range) ==
    IF /\ Has(list, id(range.min))
       /\ Has(list, id(range.max))
       /\ eq(Get(list, id(range.min)), Get(list, id(range.max)))
        THEN Quiet(list, RetBool(FALSE))
        ELSE DoSetFreeOutcome(list, range)

set_used(list, index) ==
    IF Has(list, id(index))
        THEN LET intersecting == Get(list, id(index))
                 removed == Remove(list, intersecting)
                 parts == split(intersecting, index)
             IN  Outcome(InsertIfNotEmpty(InsertIfNotEmpty(removed, parts[1]), parts[2]),
                         RetBool(TRUE),
                         IF index = 0 THEN IncOverflows(intersecting.min)
                                      ELSE IncOverflows(index),
                         index # 0 /\ DecUnderflows(index),
                         removed)
        ELSE Quiet(list, RetBool(FALSE))

\* first as it would be had it mapped the first range to its max.
first_returns_max(list) == IF Len(list) > 0 THEN RetSome(list[1].max) ELSE RetNone

first(list) == IF Len(list) > 0 THEN RetSome(list[1].min) ELSE RetNone

last(list) == IF Len(list) > 0 THEN RetSome(list[Len(list)].max) ELSE RetNone

\* set_first_used as it would be had it not put the remainder back.
set_first_used_drop_rest(list) ==
    IF Len(list) > 0
        THEN Quiet(Remove(list, list[1]), RetSome(list[1].min))
        ELSE Quiet(list, RetNone)

set_first_used(list) ==
    IF Len(list) > 0
        THEN LET f == list[1]
                 removed == Remove(list, f)
             IN  Outcome(InsertIfNotEmpty(removed, pop_front(f)),
                         RetSome(f.min), IncOverflows(f.min), FALSE, removed)
        ELSE Quiet(list, RetNone)

\* set_last_used as it would be without the `last.max != 0` test.
set_last_used_unguarded(list) ==
    IF Len(list) > 0
        THEN LET l == list[Len(list)]
                 removed == Remove(list, l)
             IN  Outcome(InsertIfNotEmpty(removed, pop_back(l)),
                         RetSome(l.max), FALSE, DecUnderflows(l.max), removed)
        ELSE Quiet(list, RetNone)

set_last_used(list) ==
    IF Len(list) > 0
        THEN LET l == list[Len(list)]
                 removed == Remove(list, l)
             IN  IF l.max # 0
                     THEN Outcome(InsertIfNotEmpty(removed, pop_back(l)),
                                  RetSome(l.max), FALSE, DecUnderflows(l.max), removed)
                     ELSE Quiet(removed, RetSome(l.max))
        ELSE Quiet(list, RetNone)

\* remove_last_contiguous as it would be had it dropped only the topmost index.
remove_last_index_only(list) == Quiet(set_last_used(list).list, RetUnit)

remove_last_contiguous(list) ==
    IF last(list).kind = "some"
        THEN Quiet(Remove(list, id(last(list).v)), RetUnit)
        ELSE Quiet(list, RetUnit)

is_free(list, index) == Has(list, id(index))

clear(list) == Quiet(<<>>, RetUnit)

with_initial_range(range) == Insert(<<>>, range)

-----------------------------------------------------------------------------
(* The state machine: a FreeRanges value and the calls made on it *)

\* Ranges a caller may pass: min <= max
Ranges == {Range(lo, hi) : lo \in Index, hi \in Index} \ {r \in [min : Index, max : Index] : r.min > r.max}

Start(name, a, list) ==
    /\ free_list = list
    /\ op = name
    /\ arg = a
    /\ prev = list
    /\ ret = RetUnit
    /\ panicked = FALSE
    /\ overflowed = FALSE
    /\ underflowed = FALSE
    /\ round_trip = FALSE
    /\ before = <<>>

\* No comparison probed, no abstract set kept, no drain under way
NoProbe == [ranges |-> <<>>, ords |-> <<>>, done |-> FALSE]

NoAbstract == [S |-> {}, ret |-> RetUnit]

NoDrain == [on |-> FALSE, start |-> {}, rets |-> <<>>]

Init ==
    /\ overflow_checks \in BOOLEAN
    /\ probe = NoProbe
    /\ abstract = NoAbstract
    /\ drain = NoDrain
    /\ \/ Start("new", EMPTY_RANGE, <<>>)
       \/ Start("with_all_free", Range(0, MAX), with_initial_range(Range(0, MAX)))
       \/ \E r \in Ranges : Start("with_initial_range", r, with_initial_range(r))

\* One call, with outcome o: its effect on the FreeRanges value
Step(name, a, o) ==
    /\ ~panicked
    /\ op' = name
    /\ arg' = a
    /\ prev' = free_list
    /\ overflowed' = o.ovf
    /\ underflowed' = o.unf
    /\ IF overflow_checks /\ (o.ovf \/ o.unf)
        THEN /\ panicked' = TRUE
             /\ free_list' = o.mid
             /\ ret' = NoReturn
        ELSE /\ panicked' = FALSE
             /\ free_list' = o.list
             /\ ret' = o.ret
    /\ round_trip' = (name = "set_used" /\ op = "set_free" /\ ret = RetBool(TRUE) /\ arg = a)
    /\ before' = IF round_trip' THEN prev ELSE <<>>
    /\ UNCHANGED overflow_checks

Call(name, a, o) == Step(name, a, o) /\ UNCHANGED <<probe, abstract, drain>>

SetFree == \E i \in Index : Call("set_free", id(i), set_free(free_list, i))

SetRangeFree == \E r \in Ranges : Call("set_range_free", r, set_range_free(free_list, r))

SetUsed == \E i \in Index : Call("set_used", id(i), set_used(free_list, i))

SetFirstUsed == Call("set_first_used", EMPTY_RANGE, set_first_used(free_list))

SetLastUsed == Call("set_last_used", EMPTY_RANGE, set_last_used(free_list))

RemoveLastContiguous ==
    Call("remove_last_contiguous", EMPTY_RANGE, remove_last_contiguous(free_list))

Clear == Call("clear", EMPTY_RANGE, clear(free_list))

\* The queries: &self methods, which return a value and leave the set alone
First == Call("first", EMPTY_RANGE, Quiet(free_list, first(free_list)))

Last == Call("last", EMPTY_RANGE, Quiet(free_list, last(free_list)))

IsFree == \E i \in Index :
    Call("is_free", id(i), Quiet(free_list, RetBool(is_free(free_list, i))))

Next ==
    \/ SetFree
    \/ SetRangeFree
    \/ SetUsed
    \/ SetFirstUsed
    \/ SetLastUsed
    \/ RemoveLastContiguous
    \/ Clear
    \/ First
    \/ Last
    \/ IsFree

Spec == Init /\ [][Next]_vars

-----------------------------------------------------------------------------
(* Range::cmp on its own: three non-empty ranges, compared pairwise *)

InitCmp ==
    /\ overflow_checks = FALSE
    /\ Start("new", EMPTY_RANGE, <<>>)
    /\ abstract = NoAbstract
    /\ drain = NoDrain
    /\ \E a \in Ranges, b \in Ranges, c \in Ranges :
            probe = [ranges |-> <<a, b, c>>, ords |-> <<>>, done |-> FALSE]

Compare ==
    /\ ~probe.done
    /\ probe' = [ranges |-> probe.ranges,
                 ords |-> [i \in 1..3 |-> [j \in 1..3 |->
                            cmp(probe.ranges[i], probe.ranges[j])]],
                 done |-> TRUE]
    /\ UNCHANGED <<free_list, overflow_checks, panicked, op, arg, prev, ret,
                   overflowed, underflowed, round_trip, before, abstract, drain>>

NextCmp == Compare

SpecCmp == InitCmp /\ [][NextCmp]_vars

-----------------------------------------------------------------------------
(* What the stored ranges mean *)

\* The indices that lie in some stored range
Free(list) == {x \in Index : \E k \in 1..Len(list) : list[k].min <= x /\ x <= list[k].max}

Points(r) == {x \in Index : r.min <= x /\ x <= r.max}

Least(S) == CHOOSE m \in S : \A x \in S : m <= x

Greatest(S) == CHOOSE m \in S : \A x \in S : m >= x

-----------------------------------------------------------------------------
(* A plain set of indices S kept side by side with the FreeRanges value.   *)
(* The calls are those that never touch MAX: the set starts from new() or  *)
(* from with_initial_range(r) with r.max < MAX, set_free takes an index    *)
(* below MAX and set_range_free is not called.                             *)

\* The maximal runs of consecutive indices of S, ascending
RECURSIVE RunsFrom(_, _)
RunsFrom(S, lo) ==
    LET rest == {x \in S : x >= lo}
    IN  IF rest = {}
            THEN <<>>
            ELSE LET a == Least(rest)
                     b == Least({y \in rest : y + 1 \notin S})
                 IN  <<Range(a, b)>> \o RunsFrom(S, b + 1)

Runs(S) == RunsFrom(S, 0)

LastRun(S) == Runs(S)[Len(Runs(S))]

AbsSetFree(S, i) == [S |-> S \cup {i}, ret |-> RetBool(i \notin S)]

AbsSetUsed(S, i) == [S |-> S \ {i}, ret |-> RetBool(i \in S)]

AbsSetFirstUsed(S) ==
    IF S = {} THEN [S |-> S, ret |-> RetNone]
              ELSE [S |-> S \ {Least(S)}, ret |-> RetSome(Least(S))]

AbsSetLastUsed(S) ==
    IF S = {} THEN [S |-> S, ret |-> RetNone]
              ELSE [S |-> S \ {Greatest(S)}, ret |-> RetSome(Greatest(S))]

AbsRemoveLastContiguous(S) ==
    IF S = {} THEN [S |-> S, ret |-> RetUnit]
              ELSE [S |-> S \ Points(LastRun(S)), ret |-> RetUnit]

AbsClear(S) == [S |-> {}, ret |-> RetUnit]

InitSet ==
    /\ overflow_checks \in BOOLEAN
    /\ probe = NoProbe
    /\ drain = NoDrain
    /\ \/ Start("new", EMPTY_RANGE, <<>>) /\ abstract = NoAbstract
       \/ \E r \in Ranges :
            /\ r.max < MAX
            /\ Start("with_initial_range", r, with_initial_range(r))
            /\ abstract = [S |-> Points(r), ret |-> RetUnit]

\* One call on the FreeRanges value and the same call on S
Both(name, a, o, abs) ==
    /\ Step(name, a, o)
    /\ abstract' = abs
    /\ UNCHANGED <<probe, drain>>

SetFreeBoth == \E i \in Index :
    /\ i < MAX
    /\ Both("set_free", id(i), set_free(free_list, i), AbsSetFree(abstract.S, i))

SetUsedBoth == \E i \in Index :
    Both("set_used", id(i), set_used(free_list, i), AbsSetUsed(abstract.S, i))

SetFirstUsedBoth ==
    Both("set_first_used", EMPTY_RANGE, set_first_used(free_list),
         AbsSetFirstUsed(abstract.S))

SetLastUsedBoth ==
    Both("set_last_used", EMPTY_RANGE, set_last_used(free_list),
         AbsSetLastUsed(abstract.S))

RemoveLastContiguousBoth ==
    Both("remove_last_contiguous", EMPTY_RANGE, remove_last_contiguous(free_list),
         AbsRemoveLastContiguous(abstract.S))

ClearBoth == Both("clear", EMPTY_RANGE, clear(free_list), AbsClear(abstract.S))

NextSet ==
    \/ SetFreeBoth
    \/ SetUsedBoth
    \/ SetFirstUsedBoth
    \/ SetLastUsedBoth
    \/ RemoveLastContiguousBoth
    \/ ClearBoth

SpecSet == InitSet /\ [][NextSet]_vars

-----------------------------------------------------------------------------
(* Draining: from any state the calls can reach, set_first_used() is called *)
(* again and again with no other call in between.                           *)

\* How many calls are made after the set should have run empty
ExtraCalls == 2

\* Any sequence of calls, before the drain starts
Prepare == ~drain.on /\ Next

BeginDrain ==
    /\ ~drain.on
    /\ ~panicked
    /\ drain' = [on |-> TRUE, start |-> Free(free_list), rets |-> <<>>]
    /\ UNCHANGED <<free_list, overflow_checks, panicked, op, arg, prev, ret,
                   overflowed, underflowed, round_trip, before, probe, abstract>>

DrainStep ==
    /\ drain.on
    /\ Len(drain.rets) < Cardinality(drain.start) + ExtraCalls
    /\ Step("set_first_used", EMPTY_RANGE, set_first_used(free_list))
    /\ drain' = [drain EXCEPT !.rets = Append(@, ret')]
    /\ UNCHANGED <<probe, abstract>>

NextDrain ==
    \/ Prepare
    \/ BeginDrain
    \/ DrainStep

SpecDrain == Init /\ [][NextDrain]_vars

-----------------------------------------------------------------------------
(* Properties *)

\* set_free(index) was the last call, index was not free and lies below MAX
SetFreeBelowMax ==
    op = "set_free" /\ arg.min < MAX /\ arg.min \notin Free(prev)

\* C1: no two distinct stored intervals are adjacent: there are never stored
\* intervals A and B with A.max + 1 = B.min.
NoTwoAdjacent ==
    \A i, j \in 1..Len(free_list) :
        i # j => free_list[i].max + 1 # free_list[j].min

\* C2: in every reachable state no two distinct stored intervals share an index.
PairwiseDisjoint ==
    \A i, j \in 1..Len(free_list) :
        i # j => Points(free_list[i]) \cap Points(free_list[j]) = {}

\* A set_range_free that returned true on a range overlapping a stored
\* interval, with several intervals stored afterwards.
PairwiseDisjointWitness ==
    /\ op = "set_range_free"
    /\ ret = RetBool(TRUE)
    /\ Points(arg) \cap Free(prev) # {}
    /\ Len(free_list) >= 2

\* C3 (on ranges that end below MAX, so that no overflow is involved): after
\* set_range_free(r) the free indices are exactly the previously free indices
\* together with every index of r.
SetRangeFreeIsUnion ==
    (op = "set_range_free" /\ arg.max < MAX) =>
        /\ ret.kind = "bool"
        /\ Free(free_list) = Free(prev) \cup Points(arg)

\* C4: for an index i below MAX that is not free, set_free(i) returns true and
\* afterwards the free indices are exactly the previous ones plus i.
SetFreeAddsOnlyIndex ==
    SetFreeBelowMax =>
        /\ ret = RetBool(TRUE)
        /\ is_free(free_list, arg.min)
        /\ Free(free_list) = Free(prev) \cup {arg.min}

\* set_free(i) joined a stored interval ending at i - 1 with one starting at
\* i + 1, while another interval was stored as well.
SetFreeAddsOnlyIndexWitness ==
    /\ SetFreeBelowMax
    /\ arg.min > 0
    /\ arg.min - 1 \in Free(prev)
    /\ arg.min + 1 \in Free(prev)
    /\ Len(prev) >= 3
    /\ Len(free_list) = Len(prev) - 1

\* C5: for a free index i, set_used(i) returns true and afterwards i is not
\* free while every other index keeps its status.
SetUsedRemovesOnlyIndex ==
    (op = "set_used" /\ arg.min \in Free(prev)) =>
        /\ ret = RetBool(TRUE)
        /\ ~is_free(free_list, arg.min)
        /\ Free(free_list) = Free(prev) \ {arg.min}

\* C6: freeing or using MAX computes no value above MAX, completes, and leaves
\* exactly the intended indices free.
NoOverflowAtMax ==
    /\ (op = "set_free" /\ arg.min = MAX /\ MAX \notin Free(prev)) =>
            /\ ~overflowed
            /\ ~panicked
            /\ Free(free_list) = Free(prev) \cup {MAX}
    /\ (op = "set_range_free" /\ arg.max = MAX) =>
            /\ ~overflowed
            /\ ~panicked
            /\ Free(free_list) = Free(prev) \cup Points(arg)
    /\ (op = "set_used" /\ arg.min = MAX /\ MAX \in Free(prev)) =>
            /\ ~overflowed
            /\ ~panicked
            /\ Free(free_list) = Free(prev) \ {MAX}
    /\ (op = "set_first_used" /\ Len(prev) > 0 /\ prev[1].min = MAX) =>
            /\ ~overflowed
            /\ ~panicked
            /\ Free(free_list) = Free(prev) \ {MAX}

\* C7: set_free(i) on an index that is not free followed at once by
\* set_used(i): both return true and the stored intervals are those from
\* before the set_free.
RoundTripRestores ==
    round_trip => (ret = RetBool(TRUE) /\ free_list = before)

\* C8: on a non-empty set set_first_used() returns the smallest free index m,
\* afterwards m is not free and every other index keeps its status; on the
\* empty set it returns none and the set stays empty.
SetFirstUsedTakesSmallest ==
    op = "set_first_used" =>
        IF Free(prev) = {}
            THEN ret = RetNone /\ free_list = <<>>
            ELSE \E m \in Free(prev) :
                    /\ \A x \in Free(prev) : m <= x
                    /\ first(prev) = RetSome(m)
                    /\ ret = RetSome(m)
                    /\ Free(free_list) = Free(prev) \ {m}

FalseMeansNoChange ==
    /\ (op = "set_free" /\ ~panicked) =>
            /\ ret.kind = "bool"
            /\ ~ret.b <=> arg.min \in Free(prev)
            /\ ~ret.b => free_list = prev
    /\ (op = "set_used" /\ ~panicked) =>
            /\ ret.kind = "bool"
            /\ ~ret.b <=> arg.min \notin Free(prev)
            /\ ~ret.b => free_list = prev

\* set_free(i) returned false for an index strictly inside a stored interval,
\* with several intervals stored.
FalseMeansNoChangeWitness ==
    /\ op = "set_free"
    /\ ret = RetBool(FALSE)
    /\ Len(prev) >= 2
    /\ \E k \in 1..Len(prev) : prev[k].min < arg.min /\ arg.min < prev[k].max

\* Both ends of r lie inside one and the same stored interval
SameInterval(list, r) ==
    \E k \in 1..Len(list) : contains(list[k], r.min) /\ contains(list[k], r.max)

\* C11: set_range_free(r) returns false if and only if r.min and r.max both
\* lie inside one and the same stored interval, and then the stored intervals
\* are unchanged; in every other case it returns true.
SetRangeFreeFalseIffInside ==
    op = "set_range_free" =>
        /\ ret.kind = "bool"
        /\ ~ret.b <=> SameInterval(prev, arg)
        /\ ~ret.b => free_list = prev

\* C12 (set_range_free on ranges that end below MAX, so that no overflow is
\* involved): freeing or using index 0 computes nothing below 0 and leaves
\* exactly the intended indices free.
NoUnderflowAtZero ==
    /\ ~underflowed
    /\ (op = "set_free" /\ arg.min = 0 /\ 0 \notin Free(prev)) =>
            Free(free_list) = Free(prev) \cup {0}
    /\ (op = "set_range_free" /\ arg.min = 0 /\ arg.max < MAX) =>
            Free(free_list) = Free(prev) \cup Points(arg)
    /\ (op = "set_used" /\ arg.min = 0 /\ 0 \in Free(prev)) =>
            Free(free_list) = Free(prev) \ {0}
    /\ (op = "set_last_used" /\ Free(prev) # {} /\ \A x \in Free(prev) : x = 0) =>
            Free(free_list) = {}

\* The stored intervals that compare Equal to the point [x,x]
EqualToPoint(list, x) == {k \in 1..Len(list) : cmp(id(x), list[k]) = "Equal"}

\* C13: for every index x at most one stored interval compares Equal to the
\* point [x,x], it is the interval with min <= x <= max, and is_free(x) is
\* true if and only if there is one.
PointLookupFindsContainer ==
    /\ \A x \in Index :
        /\ Cardinality(EqualToPoint(free_list, x)) <= 1
        /\ EqualToPoint(free_list, x) =
                {k \in 1..Len(free_list) : free_list[k].min <= x /\ x <= free_list[k].max}
        /\ is_free(free_list, x) <=> EqualToPoint(free_list, x) # {}
    /\ op = "is_free" =>
        /\ ret = RetBool(EqualToPoint(prev, arg.min) # {})
        /\ free_list = prev

\* is_free(x) answered true for an index strictly inside the second of
\* several stored intervals.
PointLookupFindsContainerWitness ==
    /\ op = "is_free"
    /\ ret = RetBool(TRUE)
    /\ Len(free_list) >= 2
    /\ free_list[2].min < arg.min
    /\ arg.min < free_list[2].max

RemoveLastContiguousDropsLast ==
    op = "remove_last_contiguous" =>
        IF prev = <<>>
            THEN free_list = <<>>
            ELSE /\ \A k \in 1..(Len(prev) - 1) : prev[k].max < prev[Len(prev)].max
                 /\ free_list = SubSeq(prev, 1, Len(prev) - 1)
                 /\ Free(free_list) = Free(prev) \ Points(prev[Len(prev)])

\* remove_last_contiguous() on several intervals, the last with several indices.
RemoveLastContiguousDropsLastWitness ==
    /\ op = "remove_last_contiguous"
    /\ Len(prev) >= 2
    /\ prev[Len(prev)].min < prev[Len(prev)].max
    /\ Len(free_list) = Len(prev) - 1

\* C16: every stored interval satisfies min <= max; the empty sentinel is
\* never stored.
StoredRangesNotEmpty ==
    \A k \in 1..Len(free_list) : free_list[k].min <= free_list[k].max

\* set_used(i) on the stored one-index interval [i,i]: both parts of the
\* split are empty and neither is stored.
StoredRangesNotEmptyWitness ==
    /\ op = "set_used"
    /\ ret = RetBool(TRUE)
    /\ \E k \in 1..Len(prev) : prev[k] = arg
    /\ Len(prev) >= 2
    /\ Len(free_list) = Len(prev) - 1

\* Ranges i and j of the probe share no index
ProbeDisjoint(i, j) == Points(probe.ranges[i]) \cap Points(probe.ranges[j]) = {}

\* The probed ranges form a collection of pairwise disjoint intervals
ProbeIsCollection ==
    \A i, j \in 1..3 : probe.ranges[i] = probe.ranges[j] \/ ProbeDisjoint(i, j)

\* C17: any two non-empty intervals compare Equal exactly when they share an
\* index; among pairwise disjoint non-empty intervals Equal means the same
\* interval, Less one way is Greater the other way, Less is transitive, and
\* the order is the order of the mins.
CmpIsOrderOnDisjoint ==
    probe.done =>
        /\ \A i, j \in 1..3 : probe.ords[i][j] = "Equal" <=> ~ProbeDisjoint(i, j)
        /\ ProbeIsCollection =>
            /\ \A i, j \in 1..3 :
                probe.ords[i][j] = "Equal" => probe.ranges[i] = probe.ranges[j]
            /\ \A i, j \in 1..3 :
                probe.ords[i][j] = "Less" <=> probe.ords[j][i] = "Greater"
            /\ \A i, j, k \in 1..3 :
                (probe.ords[i][j] = "Less" /\ probe.ords[j][k] = "Less")
                    => probe.ords[i][k] = "Less"
            /\ \A i, j \in 1..3 :
                probe.ords[i][j] = "Less" <=> probe.ranges[i].min < probe.ranges[j].min

\* Three pairwise disjoint ranges, given out of order, have been compared.
CmpIsOrderOnDisjointWitness ==
    /\ probe.done
    /\ ProbeIsCollection
    /\ probe.ranges[1].min < probe.ranges[1].max
    /\ probe.ords[2][1] = "Less"
    /\ probe.ords[1][3] = "Less"
    /\ probe.ords[3][2] = "Greater"

DisjointNonAdjacent(list) ==
    \A i, j \in 1..Len(list) :
        i # j => /\ Points(list[i]) \cap Points(list[j]) = {}
                 /\ list[i].max + 1 # list[j].min

\* set_range_free(r) was the last call, on disjoint non-adjacent stored
\* intervals, with r ending below MAX and none of its indices free
SetRangeFreeOnFreshRange ==
    /\ op = "set_range_free"
    /\ arg.max < MAX
    /\ Points(arg) \cap Free(prev) = {}
    /\ DisjointNonAdjacent(prev)

\* C19: on disjoint non-adjacent stored intervals, set_range_free(r) for a
\* range r below MAX none of whose indices is free returns true; the stored
\* intervals are again disjoint and non-adjacent and cover exactly the old
\* free indices and r; r is merged with the stored intervals containing
\* r.min - 1 and r.max + 1, and no other stored interval is changed.
SetRangeFreeMergesNeighbours ==
    SetRangeFreeOnFreshRange =>
        /\ ret = RetBool(TRUE)
        /\ DisjointNonAdjacent(free_list)
        /\ Free(free_list) = Free(prev) \cup Points(arg)
        /\ free_list = Runs(Free(prev) \cup Points(arg))
        /\ \A k \in 1..Len(prev) :
            (~contains(prev[k], arg.min - 1) /\ ~contains(prev[k], arg.max + 1))
                => \E j \in 1..Len(free_list) : free_list[j] = prev[k]

\* set_range_free(r), r of several indices, joined the stored interval ending
\* at r.min - 1 with the one starting at r.max + 1 and left a third untouched.
SetRangeFreeMergesNeighboursWitness ==
    /\ SetRangeFreeOnFreshRange
    /\ arg.min < arg.max
    /\ arg.min - 1 \in Free(prev)
    /\ arg.max + 1 \in Free(prev)
    /\ Len(prev) >= 3
    /\ Len(free_list) = Len(prev) - 1

\* The members of S in ascending order
RECURSIVE Ascending(_)
Ascending(S) == IF S = {} THEN <<>> ELSE <<Least(S)>> \o Ascending(S \ {Least(S)})

\* C20: from a state with exactly k free indices, repeated set_first_used()
\* calls return those k indices in ascending order in the first k calls,
\* after which the set is empty and every further call returns none.
DrainAscendingThenEmpty ==
    drain.on =>
        LET k == Cardinality(drain.start)
            n == Len(drain.rets)
        IN  /\ \A j \in 1..n :
                drain.rets[j] = IF j <= k THEN RetSome(Ascending(drain.start)[j])
                                          ELSE RetNone
            /\ n >= k => free_list = <<>>

====
